---- MODULE Spec2Model ----
(***************************************************************************)
(* Model of the video emotion annotator (src/app.py): the segmenter, the   *)
(* per-(video, role) session store, the editing surface, the commit, the   *)
(* pending count and the spreadsheet export.                               *)
(*                                                                         *)
(* Display strings are kept in ASCII: the label "Pending" stands for the   *)
(* source's Pending display string of EMOTIONS[0], and so on.              *)
(***************************************************************************)
EXTENDS Integers, Sequences, FiniteSets, TLC

VARIABLES
    seg_pc,          \* segmenter harness: "call" before, "done" after the call
    duration_sec,    \* argument of generate_time_segments
    seg_len,         \* the module global SEGMENT_LENGTH the call reads
    seg_out,         \* the list generate_time_segments returned
    pc,              \* position of the script run: "sidebar", "init",
                     \* "editor", "commit", "status", "export"
    session_state,   \* st.session_state: session key -> annotation table
    selected_video,  \* sidebar selectbox values
    selected_role,
    segments,        \* line 95
    session_key,     \* line 98
    edited_df,       \* what st.data_editor returned
    pending_count,   \* line 154
    status,          \* "warning" (line 157) or "success" (line 159)
    file_name,       \* line 162
    excel_data,      \* line 168
    export_error,    \* the exception line 168 raised in the last run, or ""
    created,         \* history: the branch of line 99 was taken in this run
    prev_state,      \* history: st.session_state before the last write step
    reruns           \* number of completed script runs

segVars == <<seg_pc, duration_sec, seg_len, seg_out>>

appVars == <<pc, session_state, selected_video, selected_role, segments,
             session_key, edited_df, pending_count, status, file_name,
             excel_data, export_error, created, prev_state, reruns>>

vars == <<segVars, appVars>>

\* ---------------------------------------------------------------- bounds
MaxDuration == 40
MaxNegDuration == 2
MaxSegLen == 4
MaxReruns == 2

\* ------------------------------------------------------------- constants
SEGMENT_LENGTH == 15

EMOTIONS ==
    <<"Pending",
      "Intense Conflict",
      "Excited Joy",
      "Emotional Breakdown",
      "Calm Communication",
      "Not Present">>

EmotionSet == {EMOTIONS[i] : i \in 1..Len(EMOTIONS)}

Videos == {"Marriage Story", "2 Broke Girls"}

VIDEO_DATA ==
    [v \in Videos |->
        IF v = "Marriage Story"
        THEN [url |-> "https://www.youtube.com/watch?v=FDFdroN7d0w",
              duration_sec |-> 259,
              roles |-> <<"Nicole", "Charlie">>]
        ELSE [url |-> "https://www.youtube.com/watch?v=Wfkaq1t7C9o",
              duration_sec |-> 181,
              roles |-> <<"Max", "Caroline">>]]

\* ------------------------------------------------------------- segmenter
Min(a, b) == IF a < b THEN a ELSE b

\* math.ceil(a / b) for integers a and b > 0 (a may be negative).
CeilDiv_floor(a, b) == a \div b
CeilDiv(a, b) == -((-a) \div b)

\* f"{n:02}": decimal, zero-padded to width 2, wider when n >= 100.
Pad2_nopad(n) == ToString(n)
Pad2(n) == IF n < 10 THEN "0" \o ToString(n) ELSE ToString(n)

\* f"{s // 3600:02}:{(s % 3600) // 60:02}:{s % 60:02}"
FormatHMS_nomod(s) ==
    Pad2(s \div 3600) \o ":" \o Pad2(s \div 60) \o ":" \o Pad2(s % 60)
FormatHMS(s) ==
    Pad2(s \div 3600) \o ":" \o Pad2((s % 3600) \div 60) \o ":" \o Pad2(s % 60)

\* One dict appended by the loop body for 0-based ordinal i. seconds_end is
\* the loop local `end`, which the source renders into "End Time" only.
Segment_nomin(i, duration, length) ==
    LET start == i * length
        end   == (i + 1) * length
    IN  [Start_Time    |-> FormatHMS(start),
         End_Time      |-> FormatHMS(end),
         seconds_start |-> start,
         seconds_end   |-> end]
Segment(i, duration, length) ==
    LET start == i * length
        end   == Min((i + 1) * length, duration)
    IN  [Start_Time    |-> FormatHMS(start),
         End_Time      |-> FormatHMS(end),
         seconds_start |-> start,
         seconds_end   |-> end]

\* generate_time_segments, with the global SEGMENT_LENGTH as `length`.
\* range(total_segments) is empty when total_segments <= 0.
generate_time_segments(duration, length) ==
    LET total_segments == CeilDiv(duration, length)
    IN  [n \in 1..total_segments |-> Segment(n - 1, duration, length)]

\* ----------------------------------------------------------- the script
Roles(video) ==
    {VIDEO_DATA[video].roles[i] : i \in 1..Len(VIDEO_DATA[video].roles)}

\* f"data_{selected_video}_{selected_role}"
SessionKey_videoOnly(video, role) == "data_" \o video
SessionKey(video, role) == "data_" \o video \o "_" \o role

\* The initial DataFrame of lines 101-110: one row per segment.
InitialData_typo(segs, role) ==
    [i \in 1..Len(segs) |->
        [Start_Time    |-> segs[i].Start_Time,
         End_Time      |-> segs[i].End_Time,
         Role          |-> role,
         Emotion_Label |-> "pending",
         Notes         |-> ""]]
InitialData(segs, role) ==
    [i \in 1..Len(segs) |->
        [Start_Time    |-> segs[i].Start_Time,
         End_Time      |-> segs[i].End_Time,
         Role          |-> role,
         Emotion_Label |-> "Pending",
         Notes         |-> ""]]

\* Lines 99-110: st.session_state after the `not in` test and the creation.
GetOrCreate_always(state, key, segs, role) ==
    [k \in (DOMAIN state) \cup {key} |->
        IF k = key THEN InitialData(segs, role) ELSE state[k]]
GetOrCreate_evict(state, key, segs, role) ==
    IF key \notin DOMAIN state
    THEN [k \in {key} |-> InitialData(segs, role)]
    ELSE state
GetOrCreate(state, key, segs, role) ==
    IF key \notin DOMAIN state
    THEN [k \in (DOMAIN state) \cup {key} |->
            IF k = key THEN InitialData(segs, role) ELSE state[k]]
    ELSE state

\* edited_df[edited_df["Emotion Label"] == <Pending>].shape[0]
CountPending(df) ==
    Cardinality({i \in 1..Len(df) : df[i].Emotion_Label = "Pending"})

\* Lines 156-159: st.warning with the count, or st.success.
StatusMessage_offByOne(count) == IF count > 1 THEN "warning" ELSE "success"
StatusMessage(count) == IF count > 0 THEN "warning" ELSE "success"

\* The columns of the DataFrame, in the key order of lines 104-108.
COLUMNS == <<"Start Time", "End Time", "Role", "Emotion Label", "Notes">>

RowValues(row) ==
    <<row.Start_Time, row.End_Time, row.Role, row.Emotion_Label, row.Notes>>

\* A worksheet cell as the openpyxl engine stores a string value: the empty
\* string is written as a cell without a value.
EmptyCell == [t |-> "n", v |-> ""]
WriteCell(value) == IF value = "" THEN EmptyCell ELSE [t |-> "s", v |-> value]

\* df.to_excel(writer, index=False, sheet_name='Sheet1'): the header row of
\* column names, then one row of cells per DataFrame row, no index column.
ToSheet(values) == [j \in 1..Len(values) |-> WriteCell(values[j])]

\* Cell texts the openpyxl engine refuses (IllegalCharacterError): those with
\* a control character other than tab, line feed and carriage return. The
\* form feed stands for them.
IllegalTexts == {"\f"}

CanSerialize(df) ==
    \A i \in 1..Len(df) : \A j \in 1..Len(COLUMNS) :
        RowValues(df[i])[j] \notin IllegalTexts

convert_df_to_excel_index(df) ==
    [sheet_name |-> "Sheet1",
     rows |-> <<ToSheet(<<"">> \o COLUMNS)>>
                \o [i \in 1..Len(df) |->
                        ToSheet(<<ToString(i - 1)>> \o RowValues(df[i]))]]
convert_df_to_excel(df) ==
    [sheet_name |-> "Sheet1",
     rows |-> <<ToSheet(COLUMNS)>>
                \o [i \in 1..Len(df) |-> ToSheet(RowValues(df[i]))]]

\* What st.data_editor can return for `df` under the column_config of lines
\* 125-141 and the default num_rows="fixed": the same rows in the same
\* order, "Start Time", "End Time" and "Role" untouched (disabled=True),
\* "Emotion Label" one of EMOTIONS (options, required=True), "Notes" a text.
\* The edits enumerated: none, one cell of the first or the last row (its
\* label set to one of CellLabels, its notes to one of NoteTexts), or the
\* label of every row set at once to one of BulkLabels.
NoteTexts == {"", "cry", "\f"}
CellLabels == {EMOTIONS[1], EMOTIONS[3], EMOTIONS[5]}
BulkLabels == {EMOTIONS[2], EMOTIONS[4], EMOTIONS[6]}

EditRows(df) == {i \in 1..Len(df) : i = 1 \/ i = Len(df)}

\* The same surface with num_rows="dynamic": the user may delete a row.
EditorReturns_dynamic(df) ==
    {df}
    \cup {[df EXCEPT ![i].Emotion_Label = e] : i \in EditRows(df), e \in CellLabels}
    \cup {SubSeq(df, 1, Len(df) - 1)}
\* The same surface with a free-text label column (no options).
EditorReturns_freeText(df) ==
    {df}
    \cup {[df EXCEPT ![i].Emotion_Label = e] :
            i \in EditRows(df), e \in CellLabels \cup {"Happy"}}
    \cup {[df EXCEPT ![i].Notes = n] : i \in EditRows(df), n \in NoteTexts}
EditorReturns(df) ==
    {df}
    \cup {[df EXCEPT ![i].Emotion_Label = e] : i \in EditRows(df), e \in CellLabels}
    \cup {[df EXCEPT ![i].Notes = n] : i \in EditRows(df), n \in NoteTexts}
    \cup {[i \in 1..Len(df) |-> [df[i] EXCEPT !.Emotion_Label = e]] :
            e \in BulkLabels}

NoSheet == [sheet_name |-> "", rows |-> <<>>]

AppIdle ==
    /\ pc = "sidebar"
    /\ session_state = <<>>
    /\ selected_video = ""
    /\ selected_role = ""
    /\ segments = <<>>
    /\ session_key = ""
    /\ edited_df = <<>>
    /\ pending_count = 0
    /\ status = ""
    /\ file_name = ""
    /\ excel_data = NoSheet
    /\ export_error = ""
    /\ created = FALSE
    /\ prev_state = <<>>
    /\ reruns = 0

SegIdle ==
    /\ seg_pc = "idle"
    /\ duration_sec = 0
    /\ seg_len = SEGMENT_LENGTH
    /\ seg_out = <<>>

Init == AppIdle /\ SegIdle

\* Lines 72-79: the sidebar selectboxes; a role of the selected video.
Sidebar ==
    /\ pc = "sidebar"
    /\ reruns < MaxReruns
    /\ \E video \in Videos : \E role \in Roles(video) :
          /\ selected_video' = video
          /\ selected_role' = role
    /\ pc' = "init"
    /\ UNCHANGED <<session_state, segments, session_key, edited_df,
                   pending_count, status, file_name, excel_data, export_error, created,
                   prev_state, reruns>>
    /\ UNCHANGED segVars

\* Lines 94-110: the segments of the video, the session key, and the
\* initial table when the key is not in st.session_state.
InitSession ==
    /\ pc = "init"
    /\ LET video_info == VIDEO_DATA[selected_video]
           segs == generate_time_segments(video_info.duration_sec, SEGMENT_LENGTH)
           key == SessionKey(selected_video, selected_role)
       IN  /\ segments' = segs
           /\ session_key' = key
           /\ prev_state' = session_state
           /\ session_state' = GetOrCreate(session_state, key, segs, selected_role)
           /\ created' = (key \notin DOMAIN session_state)
    /\ pc' = "editor"
    /\ UNCHANGED <<selected_video, selected_role, edited_df, pending_count,
                   status, file_name, excel_data, export_error,
                   reruns>>
    /\ UNCHANGED segVars

\* Lines 123-145: the editor renders the stored table and returns it edited.
DataEditor ==
    /\ pc = "editor"
    /\ edited_df' \in EditorReturns(session_state[session_key])
    /\ pc' = "commit"
    /\ UNCHANGED <<session_state, selected_video, selected_role, segments,
                   session_key, pending_count, status, file_name, excel_data,
                   export_error, created, prev_state, reruns>>
    /\ UNCHANGED segVars

\* Line 148: st.session_state[session_key] = edited_df
\* Variants: the assignment left out; only the labelled rows patched in;
\* the edited rows appended to the stored ones.
Commit_skip ==
    /\ pc = "commit"
    /\ prev_state' = session_state
    /\ session_state' = session_state
    /\ pc' = "status"
    /\ UNCHANGED <<selected_video, selected_role, segments, session_key,
                   edited_df, pending_count, status, file_name, excel_data,
                   export_error, created, reruns>>
    /\ UNCHANGED segVars
Commit_patch ==
    /\ pc = "commit"
    /\ prev_state' = session_state
    /\ session_state' =
          [session_state EXCEPT ![session_key] =
              [i \in 1..Len(edited_df) |->
                  IF edited_df[i].Emotion_Label = "Pending"
                  THEN session_state[session_key][i]
                  ELSE edited_df[i]]]
    /\ pc' = "status"
    /\ UNCHANGED <<selected_video, selected_role, segments, session_key,
                   edited_df, pending_count, status, file_name, excel_data,
                   export_error, created, reruns>>
    /\ UNCHANGED segVars
Commit_append ==
    /\ pc = "commit"
    /\ prev_state' = session_state
    /\ session_state' =
          [session_state EXCEPT ![session_key] =
              session_state[session_key] \o edited_df]
    /\ pc' = "status"
    /\ UNCHANGED <<selected_video, selected_role, segments, session_key,
                   edited_df, pending_count, status, file_name, excel_data,
                   export_error, created, reruns>>
    /\ UNCHANGED segVars
Commit ==
    /\ pc = "commit"
    /\ prev_state' = session_state
    /\ session_state' = [session_state EXCEPT ![session_key] = edited_df]
    /\ pc' = "status"
    /\ UNCHANGED <<selected_video, selected_role, segments, session_key,
                   edited_df, pending_count, status, file_name, excel_data,
                   export_error, created, reruns>>
    /\ UNCHANGED segVars

\* Lines 154-159: the pending count and the status message.
Status ==
    /\ pc = "status"
    /\ pending_count' = CountPending(edited_df)
    /\ status' = StatusMessage(CountPending(edited_df))
    /\ pc' = "export"
    /\ UNCHANGED <<session_state, selected_video, selected_role, segments,
                   session_key, edited_df, file_name, excel_data, export_error,
                   created, prev_state, reruns>>
    /\ UNCHANGED segVars

\* Lines 162-175: the file name and the spreadsheet bytes; the run ends.
\* When the writer raises, line 168 assigns nothing and the run ends there.
Export_evicts ==
    /\ pc = "export"
    /\ file_name' = selected_role \o ".xlsx"
    /\ IF CanSerialize(edited_df)
       THEN /\ excel_data' = convert_df_to_excel(edited_df)
            /\ export_error' = ""
            /\ session_state' = session_state
       ELSE /\ excel_data' = excel_data
            /\ export_error' = "IllegalCharacterError"
            /\ session_state' = [k \in DOMAIN session_state \ {session_key} |->
                                    session_state[k]]
    /\ pc' = "sidebar"
    /\ reruns' = reruns + 1
    /\ UNCHANGED <<selected_video, selected_role, segments,
                   session_key, edited_df, pending_count, status, created,
                   prev_state>>
    /\ UNCHANGED segVars
Export ==
    /\ pc = "export"
    /\ file_name' = selected_role \o ".xlsx"
    /\ IF CanSerialize(edited_df)
       THEN /\ excel_data' = convert_df_to_excel(edited_df)
            /\ export_error' = ""
       ELSE /\ excel_data' = excel_data
            /\ export_error' = "IllegalCharacterError"
    /\ pc' = "sidebar"
    /\ reruns' = reruns + 1
    /\ UNCHANGED <<session_state, selected_video, selected_role, segments,
                   session_key, edited_df, pending_count, status, created,
                   prev_state>>
    /\ UNCHANGED segVars

Next ==
    \/ Sidebar
    \/ InitSession
    \/ DataEditor
    \/ Commit
    \/ Status
    \/ Export

Spec == Init /\ [][Next]_vars

\* ------------------------------------- the commit under any edited table
\* Line 148 stores whatever table the editing surface hands back. Here the
\* surface is any collaborator: besides the edits above it may return a
\* table with a row removed or added, or with a label outside EMOTIONS.
OpenReturns(df) ==
    EditorReturns(df)
    \cup (IF Len(df) > 0
          THEN {SubSeq(df, 1, Len(df) - 1),
                Append(df, df[Len(df)]),
                [df EXCEPT ![1].Emotion_Label = "Happy"]}
          ELSE {})

DataEditorOpen ==
    /\ pc = "editor"
    /\ edited_df' \in OpenReturns(session_state[session_key])
    /\ pc' = "commit"
    /\ UNCHANGED <<session_state, selected_video, selected_role, segments,
                   session_key, pending_count, status, file_name, excel_data,
                   export_error, created, prev_state, reruns>>
    /\ UNCHANGED segVars

NextOpen ==
    \/ Sidebar
    \/ InitSession
    \/ DataEditorOpen
    \/ Commit
    \/ Status
    \/ Export

SpecOpen == Init /\ [][NextOpen]_vars

\* ------------------------------------------------- segmenter as a function
Durations == (-MaxNegDuration..MaxDuration)
                \cup {VIDEO_DATA[v].duration_sec : v \in Videos}
SegLens == (1..MaxSegLen) \cup {SEGMENT_LENGTH}

\* Durations of an hour and more, and of a hundred hours and more, cut into
\* long segments.
LongDurations == {3725, 7384, 360015}
LongSegLens == {1800, 90000}

InitSeg ==
    /\ seg_pc = "call"
    /\ \/ duration_sec \in Durations /\ seg_len \in SegLens
       \/ duration_sec \in LongDurations /\ seg_len \in LongSegLens
    /\ seg_out = <<>>
    /\ AppIdle

CallGenerate ==
    /\ seg_pc = "call"
    /\ seg_out' = generate_time_segments(duration_sec, seg_len)
    /\ seg_pc' = "done"
    /\ UNCHANGED <<duration_sec, seg_len>>
    /\ UNCHANGED appVars

NextSeg == CallGenerate

SpecSeg == InitSeg /\ [][NextSeg]_vars

\* ------------------------------------------------------ segmenter claims
\* The sum of the lengths of segs[lo..hi], by halving the range.
RECURSIVE SumRange(_, _, _)
SumRange(segs, lo, hi) ==
    IF lo > hi THEN 0
    ELSE IF lo = hi THEN segs[lo].seconds_end - segs[lo].seconds_start
    ELSE LET mid == (lo + hi) \div 2
         IN  SumRange(segs, lo, mid) + SumRange(segs, mid + 1, hi)

SumLengths(segs) == SumRange(segs, 1, Len(segs))

IsPartition(segs, D, L) ==
    LET n == Len(segs)
    IN  /\ n > 0 => /\ segs[1].seconds_start = 0
                    /\ segs[n].seconds_end = D
                    /\ segs[n].End_Time = FormatHMS(D)
                    /\ segs[n].seconds_end - segs[n].seconds_start \in 1..L
        /\ \A i \in 1..(n - 1) :
              /\ segs[i].seconds_end = segs[i + 1].seconds_start
              /\ segs[i].End_Time = segs[i + 1].Start_Time
              /\ segs[i].seconds_end - segs[i].seconds_start = L
        /\ SumLengths(segs) = D

\* C1: for every duration D >= 0 and segment length L > 0 the returned
\* segments are a contiguous, non-overlapping partition of [0, D): the first
\* starts at 0, each end is the next start, the last ends at D, all but the
\* last have length L, the last has length in 1..L, and the lengths sum to D.
C1_Partition ==
    (seg_pc = "done" /\ duration_sec >= 0 /\ seg_len > 0)
        => IsPartition(seg_out, duration_sec, seg_len)

C1_Witness ==
    /\ seg_pc = "done"
    /\ Len(seg_out) >= 2
    /\ seg_out[Len(seg_out)].seconds_end
          - seg_out[Len(seg_out)].seconds_start < seg_len

\* C2: the number of segments is ceil(D / L), that is the one n with
\* (n - 1) * L < D <= n * L; none when D = 0; exactly one, spanning [0, D),
\* when L > D > 0.
C2_Count ==
    (seg_pc = "done" /\ duration_sec >= 0 /\ seg_len > 0) =>
        LET n == Len(seg_out)
        IN  /\ n * seg_len >= duration_sec
            /\ n > 0 => (n - 1) * seg_len < duration_sec
            /\ duration_sec = 0 => seg_out = <<>>
            /\ (seg_len > duration_sec /\ duration_sec > 0) =>
                  /\ n = 1
                  /\ seg_out[1].seconds_start = 0
                  /\ seg_out[1].seconds_end = duration_sec

C2_Witness ==
    /\ seg_pc = "done"
    /\ seg_len > duration_sec
    /\ duration_sec > 0
    /\ Len(seg_out) = 1

\* C3: with segment length 15, duration 259 gives 18 segments, the last
\* spanning [255, 259) with labels "00:04:15" and "00:04:19"; duration 181
\* gives 13 segments, the last spanning [180, 181).
C3_Catalog ==
    (seg_pc = "done" /\ seg_len = 15) =>
        /\ duration_sec = 259 =>
              /\ Len(seg_out) = 18
              /\ seg_out[18].seconds_start = 255
              /\ seg_out[18].seconds_end = 259
              /\ seg_out[18].Start_Time = "00:04:15"
              /\ seg_out[18].End_Time = "00:04:19"
        /\ duration_sec = 181 =>
              /\ Len(seg_out) = 13
              /\ seg_out[13].seconds_start = 180
              /\ seg_out[13].seconds_end = 181

C3_Witness ==
    /\ seg_pc = "done"
    /\ seg_len = 15
    /\ duration_sec = 259
    /\ Len(seg_out) = 18

\* ---------------------------------------------------- session store claims
TableOf(state, video, role) == state[SessionKey(video, role)]

HasTable(state, video, role) == SessionKey(video, role) \in DOMAIN state

Labelled(df) == \E i \in 1..Len(df) : df[i].Emotion_Label # "Pending"

\* C4: getOrCreateTable is idempotent: when the key already has a table, a
\* further access leaves the stored table as it was (and the whole store with
\* it), so committed labels and notes are never reset to Pending.
C4_Idempotent ==
    (pc = "editor" /\ HasTable(prev_state, selected_video, selected_role)) =>
        /\ session_state = prev_state
        /\ TableOf(session_state, selected_video, selected_role)
              = TableOf(prev_state, selected_video, selected_role)

C4_Witness ==
    /\ pc = "editor"
    /\ HasTable(prev_state, selected_video, selected_role)
    /\ Labelled(TableOf(session_state, selected_video, selected_role))

\* C5 (as claimed): a commit of a table whose row count differs from the
\* stored table's is rejected, so a read after it finds the stored table of
\* that key unchanged.
C5_ShapeMismatchRejected ==
    (/\ pc = "status"
     /\ Len(edited_df) # Len(prev_state[session_key]))
        => session_state[session_key] = prev_state[session_key]

\* C6 (as claimed): a commit of a table in which some row's label is not a
\* member of EMOTIONS is rejected as a whole, so no row of it is applied and
\* the previously committed table stays.
C6_InvalidLabelRejected ==
    (/\ pc = "status"
     /\ \E i \in 1..Len(edited_df) : edited_df[i].Emotion_Label \notin EmotionSet)
        => /\ session_state[session_key] = prev_state[session_key]
           /\ \A i \in 1..Len(session_state[session_key]) :
                 session_state[session_key][i].Emotion_Label \in EmotionSet

\* C7: the tables of distinct (video, role) pairs are independent: a step
\* that writes the store (creation or commit) for the selected pair leaves
\* the table of every other pair, the other role of the same video included,
\* exactly as it was.
C7_Independent ==
    (pc \in {"editor", "status"}) =>
        \A v \in Videos : \A r \in Roles(v) :
            (/\ <<v, r>> # <<selected_video, selected_role>>
             /\ HasTable(prev_state, v, r))
                => /\ HasTable(session_state, v, r)
                   /\ TableOf(session_state, v, r) = TableOf(prev_state, v, r)

C7_Witness ==
    /\ pc = "status"
    /\ session_state[session_key] # prev_state[session_key]
    /\ \E r \in Roles(selected_video) :
          /\ r # selected_role
          /\ HasTable(session_state, selected_video, r)
          /\ Labelled(TableOf(session_state, selected_video, r))

\* C8: whatever was edited and committed, the table of (video, role) has one
\* row per segment of the video, in segment order, and each row's start
\* label, end label and role are those set at creation: only the label and
\* the notes differ from the fresh table.
C8_ShapeAndReadOnly ==
    \A v \in Videos : \A r \in Roles(v) :
        HasTable(session_state, v, r) =>
            LET t == TableOf(session_state, v, r)
                segs == generate_time_segments(VIDEO_DATA[v].duration_sec,
                                               SEGMENT_LENGTH)
            IN  /\ Len(t) = Len(segs)
                /\ \A i \in 1..Len(t) :
                      /\ t[i].Start_Time = segs[i].Start_Time
                      /\ t[i].End_Time = segs[i].End_Time
                      /\ t[i].Role = r

C8_Witness ==
    /\ pc = "sidebar"
    /\ reruns >= 2
    /\ \E k \in DOMAIN session_state :
          /\ Labelled(session_state[k])
          /\ \E i \in 1..Len(session_state[k]) : session_state[k][i].Notes # ""

\* C9: the pending count of a freshly created table is the segment count
\* (every row Pending, every note empty); once a table whose rows are all
\* non-Pending is committed, the pending count is 0.
C9_PendingCount ==
    /\ (pc = "editor" /\ created) =>
          /\ CountPending(session_state[session_key]) = Len(segments)
          /\ Len(session_state[session_key]) = Len(segments)
          /\ \A i \in 1..Len(segments) : session_state[session_key][i].Notes = ""
    /\ (/\ pc = "export"
        /\ \A i \in 1..Len(edited_df) : edited_df[i].Emotion_Label # "Pending")
          => /\ pending_count = 0
             /\ session_state[session_key] = edited_df

C9_Witness ==
    /\ pc = "export"
    /\ Len(edited_df) > 0
    /\ \A i \in 1..Len(edited_df) : edited_df[i].Emotion_Label # "Pending"
    /\ pending_count = 0

\* ------------------------------------------------------------ export claims
\* Re-parsing the sheet: a cell that holds a string reads as that string, a
\* cell without a value reads as missing. The first row names the columns.
ReadCell(cell) ==
    IF cell.t = "s" THEN [present |-> TRUE, text |-> cell.v]
    ELSE [present |-> FALSE, text |-> ""]

HeaderOf(sheet) == [j \in 1..Len(sheet.rows[1]) |-> ReadCell(sheet.rows[1][j])]

ParseSheet(sheet) ==
    LET data == Tail(sheet.rows)
    IN  [i \in 1..Len(data) |-> [j \in 1..Len(data[i]) |-> ReadCell(data[i][j])]]

ReadsAs(parsed, value) == parsed.present /\ parsed.text = value

HeaderIsColumns(sheet) ==
    /\ Len(sheet.rows) >= 1
    /\ HeaderOf(sheet) =
          <<[present |-> TRUE, text |-> "Start Time"],
            [present |-> TRUE, text |-> "End Time"],
            [present |-> TRUE, text |-> "Role"],
            [present |-> TRUE, text |-> "Emotion Label"],
            [present |-> TRUE, text |-> "Notes"]>>

Exported == pc = "sidebar" /\ reruns > 0 /\ export_error = ""

\* C10 (as claimed): the export is the header row followed by one data row
\* per table row in table order, and re-parsing it gives rows equal field by
\* field to the table's, the notes included.
C10_RoundTripAll ==
    Exported =>
        LET parsed == ParseSheet(excel_data)
        IN  /\ HeaderIsColumns(excel_data)
            /\ Len(parsed) = Len(edited_df)
            /\ \A i \in 1..Len(edited_df) :
                  /\ Len(parsed[i]) = Len(COLUMNS)
                  /\ ReadsAs(parsed[i][1], edited_df[i].Start_Time)
                  /\ ReadsAs(parsed[i][2], edited_df[i].End_Time)
                  /\ ReadsAs(parsed[i][3], edited_df[i].Role)
                  /\ ReadsAs(parsed[i][4], edited_df[i].Emotion_Label)
                  /\ ReadsAs(parsed[i][5], edited_df[i].Notes)

\* C10 (amended): the export is the header row followed by one data row per
\* table row in table order; re-parsing gives back the start label, end
\* label, role and emotion label of every row, and the notes of every row
\* whose notes are not empty; empty notes are exported as a cell without a
\* value and read back as missing, not as the empty string.
C10_RoundTrip ==
    Exported =>
        LET parsed == ParseSheet(excel_data)
        IN  /\ HeaderIsColumns(excel_data)
            /\ excel_data.sheet_name = "Sheet1"
            /\ Len(parsed) = Len(edited_df)
            /\ \A i \in 1..Len(edited_df) :
                  /\ Len(parsed[i]) = Len(COLUMNS)
                  /\ ReadsAs(parsed[i][1], edited_df[i].Start_Time)
                  /\ ReadsAs(parsed[i][2], edited_df[i].End_Time)
                  /\ ReadsAs(parsed[i][3], edited_df[i].Role)
                  /\ ReadsAs(parsed[i][4], edited_df[i].Emotion_Label)
                  /\ edited_df[i].Notes # "" =>
                        ReadsAs(parsed[i][5], edited_df[i].Notes)
                  /\ edited_df[i].Notes = "" => ~parsed[i][5].present

C10_Witness ==
    /\ Exported
    /\ Len(excel_data.rows) = Len(edited_df) + 1
    /\ \E i \in 1..Len(edited_df) : edited_df[i].Notes # ""
    /\ \E i \in 1..Len(edited_df) : edited_df[i].Notes = ""
    /\ Labelled(edited_df)

\* C11: export and the pending count are read-only: neither the status
\* step, nor an export that succeeds, nor an export that raises changes any
\* table of the session store.
C11_ReadOnly ==
    [][(pc \in {"status", "export"}) => session_state' = session_state]_vars

C11_Witness ==
    /\ pc = "sidebar"
    /\ export_error # ""
    /\ session_state[session_key] = edited_df
    /\ ~CanSerialize(session_state[session_key])

\* C12 (as claimed): a call with a negative duration fails with
\* InvalidDuration, so it never returns a segment sequence.
C12_NegativeRejected ==
    duration_sec < 0 => seg_pc # "done"

\* The decimal digits of n >= 0, and n in at least two digits.
DigitStr == <<"0", "1", "2", "3", "4", "5", "6", "7", "8", "9">>

RECURSIVE Decimal(_)
Decimal(n) ==
    IF n < 10 THEN DigitStr[n + 1]
    ELSE Decimal(n \div 10) \o DigitStr[(n % 10) + 1]

TwoDigits(n) == IF n < 10 THEN "0" \o Decimal(n) ELSE Decimal(n)

\* s seconds rendered as HH:MM:SS, from the h, m, sec with
\* s = 3600 * h + 60 * m + sec, m and sec in 0..59.
IsRendering(label, s) ==
    \E m \in 0..59 : \E sec \in 0..59 :
        /\ s - 60 * m - sec >= 0
        /\ (s - 60 * m - sec) % 3600 = 0
        /\ label = TwoDigits((s - 60 * m - sec) \div 3600)
                      \o ":" \o TwoDigits(m) \o ":" \o TwoDigits(sec)

\* C17: every segment's start label and end label are the zero-padded
\* HH:MM:SS rendering of its start and end seconds: hours = s // 3600,
\* minutes = (s % 3600) // 60, seconds = s % 60, minutes and seconds within
\* 0..59, the hours not clamped (three digits from a hundred hours on).
C17_Labels ==
    seg_pc = "done" =>
        \A i \in 1..Len(seg_out) :
            /\ IsRendering(seg_out[i].Start_Time, seg_out[i].seconds_start)
            /\ IsRendering(seg_out[i].End_Time, seg_out[i].seconds_end)

C17_Witness ==
    /\ seg_pc = "done"
    /\ \E i \in 1..Len(seg_out) :
          /\ seg_out[i].seconds_start = 3600
          /\ seg_out[i].Start_Time = "01:00:00"
    /\ seg_out[Len(seg_out)].seconds_end = 360015
    /\ seg_out[Len(seg_out)].End_Time = "100:00:15"

\* -------------------------------------------------------- the cycle claims
Committed == session_state[session_key]

\* C13: in every run the pending count shown and the spreadsheet exported
\* are computed from the table committed in that run: when the status and
\* the export are produced, the table they read is the table stored under
\* the current session key.
C13_CommitThenRead ==
    /\ (pc \in {"status", "export"}) => Committed = edited_df
    /\ pc = "export" =>
          /\ pending_count = CountPending(Committed)
          /\ status = StatusMessage(CountPending(Committed))
    /\ Exported => excel_data = convert_df_to_excel(Committed)

C13_Witness ==
    /\ Exported
    /\ Committed # prev_state[session_key]
    /\ Labelled(Committed)
    /\ excel_data = convert_df_to_excel(Committed)
    /\ pending_count < Len(Committed)

\* C14: a commit is last-write-wins: right after it the table stored under
\* the key equals the new table in every row and field, whatever was stored
\* before (a label set back to Pending included), and the keys of the store
\* are the same; after several commits the last one is what is stored.
C14_LastWriteWins ==
    pc = "status" =>
        /\ DOMAIN session_state = DOMAIN prev_state
        /\ Len(Committed) = Len(edited_df)
        /\ \A i \in 1..Len(edited_df) :
              /\ Committed[i].Start_Time = edited_df[i].Start_Time
              /\ Committed[i].End_Time = edited_df[i].End_Time
              /\ Committed[i].Role = edited_df[i].Role
              /\ Committed[i].Emotion_Label = edited_df[i].Emotion_Label
              /\ Committed[i].Notes = edited_df[i].Notes

C14_Witness ==
    /\ pc = "status"
    /\ reruns >= 1
    /\ ~created
    /\ Labelled(prev_state[session_key])
    /\ \E i \in 1..Len(edited_df) :
          /\ prev_state[session_key][i].Emotion_Label # "Pending"
          /\ edited_df[i].Emotion_Label = "Pending"
    /\ Committed = edited_df

\* C15: no eviction: a key that has a table keeps having one in every later
\* state, whatever selections, commits and exports follow.
C15_NoEviction ==
    [][DOMAIN session_state \subseteq DOMAIN session_state']_vars

C15_Witness ==
    /\ pc = "sidebar"
    /\ reruns >= 2
    /\ Cardinality(DOMAIN session_state) >= 2
    /\ \E k \in DOMAIN session_state : k # session_key /\ Labelled(session_state[k])

\* The rows of df still labelled Pending, counted by filtering the sequence.
IsPendingRow(row) == row.Emotion_Label = "Pending"

PendingRows(df) == Len(SelectSeq(df, IsPendingRow))

\* C16: the status is binary and exact: it is "success" (complete) exactly
\* when no row of the committed table is Pending, otherwise "warning"
\* (incomplete) with the exact number of Pending rows.
C16_Status ==
    pc = "export" =>
        /\ status \in {"success", "warning"}
        /\ status = "success" <=> PendingRows(Committed) = 0
        /\ status = "warning" => (pending_count > 0
                                    /\ pending_count = PendingRows(Committed))

C16_Witness ==
    /\ pc = "export"
    /\ status = "warning"
    /\ pending_count = 1
    /\ Len(Committed) > 1

\* C18: with the editing surface offering only EMOTIONS, every row of every
\* stored table, and of the table the editor returned, has a label that is a
\* member of EMOTIONS.
C18_LabelsInEnum ==
    /\ \A k \in DOMAIN session_state : \A i \in 1..Len(session_state[k]) :
          session_state[k][i].Emotion_Label \in EmotionSet
    /\ \A i \in 1..Len(edited_df) : edited_df[i].Emotion_Label \in EmotionSet

C18_Witness ==
    /\ pc = "sidebar"
    /\ \E k \in DOMAIN session_state : \E i \in 1..Len(session_state[k]) :
          /\ session_state[k][i].Emotion_Label = EMOTIONS[6]
          /\ session_state[k][1].Emotion_Label = EMOTIONS[3]

\* C19: a run without an edit is a no-op on the store: committing the table
\* exactly as the editor rendered it leaves the table of the current key and
\* of every other key as it was.
C19_NoEditNoChange ==
    (pc = "status" /\ edited_df = prev_state[session_key]) =>
        session_state = prev_state

C19_Witness ==
    /\ pc = "status"
    /\ ~created
    /\ edited_df = prev_state[session_key]
    /\ Labelled(edited_df)

====
